---- MODULE Spec2Model ----
(***************************************************************************)
(* A model of bvbrc_docking/utils.py: the host process calling the         *)
(* subprocess runner, the SDF->PDB converter wrapper, the structure merger *)
(* and cleaner, the affinity scorer and the SMILES validator; the path     *)
(* validators over a small file system; the configuration mixin;           *)
(* from_args; pdb2seq.                                                     *)
(***************************************************************************)
EXTENDS Integers, Sequences, FiniteSets, TLC

\* ------------------------------------------------------------------ bounds
\* calls the host script makes in one run
MaxCalls == 2
\* capacity of the OS pipe behind subprocess.PIPE, in blocks
PipeCap == 2
\* most blocks a child writes to its standard error
MaxErr == 3
\* most blocks a child writes to its standard output
MaxOut == 1

VARIABLES
    pc,         \* position of the host's thread of control
    op,         \* the utils.py function the host called last
    caller,     \* who called run_and_save: "host" or "cal_cnn_aff"
    calls,      \* top-level calls completed
    sinkArg,    \* run_and_save's output_file argument: "None" or "file"
    sinkS,      \* what has reached the file behind the output_file object
    stdoutS,    \* what has reached the host's standard output
    sinkBuf,    \* text in the output_file object's binary buffer
    stdoutBuf,  \* text in sys.stdout's binary buffer
    sinkPend,   \* text the output_file object's text layer has yet to pass
                \* to its binary buffer
    stdoutPend, \* text sys.stdout's text layer has yet to pass to its
                \* binary buffer
    sinkMode,   \* buffering of the output_file object: "line" or "block"
    stdoutMode, \* buffering of sys.stdout: "line" (a terminal) or "block"
    stderrS,    \* what was written to the host's sys.stderr
    child,      \* the child process of the last Popen
    pipe,       \* blocks sitting in the child's stderr pipe
    rc,         \* local rc of run_and_save / sdf2pdb
    err,        \* local err of sdf2pdb (blocks read from the pipe)
    files,      \* the PDB files on disk: path -> [exists, size]
    sdfFile,    \* sdf2pdb's sdf_file argument
    pdbFile,    \* sdf2pdb's pdb_file local
    prot_pdb,   \* comb_pdb's prot_pdb argument
    lig_pdb,    \* comb_pdb's lig_pdb argument
    comp_pdb,   \* comb_pdb's comp_pdb local
    pdb_file,   \* clean_pdb's pdb_file argument
    output_pdb, \* clean_pdb's output_pdb argument
    retval,     \* what the last call returned to the host
    exc,        \* the exception propagating out of the call, "none" if none
    exitCode,   \* << >> while the host runs, <<status>> once it has terminated
    tmpExists,  \* cal_cnn_aff's temporary directory exists on disk
    outSdf,     \* state of the scoring binary's output file in the tempdir
    logEnabled, \* RDKit's process-wide rdApp.error log switch
    logPrior,   \* the switch when validate_smiles was entered
    smiles,     \* validate_smiles's argument
    isValid,    \* validate_smiles's local is_valid
    \* pdb2seq
    three_to_one, \* the module's residue code table
    resnames,   \* resname of each of protein.residues, in structural order
    seq,        \* pdb2seq's local seq, a string as its characters
    resIdx,     \* residues the loop has consumed
    seqPc,      \* position in pdb2seq
    \* from_args
    args,       \* the argparse.Namespace: name -> value
    v,          \* from_args's local v
    raw,        \* from_args's local raw, which holds v itself
    keyIdx,     \* keys the loop has consumed
    ctorArg,    \* the keyword arguments cls(**raw) received
    argPc,      \* position in from_args
    \* the file system the path validators act on
    dirs,       \* the directories, as canonical absolute paths
    regs,       \* the regular files, as canonical absolute paths
    cwd,        \* the process's working directory
    \* the last call of a path validator
    pathOp,     \* "_resolve_path_exists" or "_resolve_mkdir"
    pathArg,    \* its argument value
    pathRes,    \* what it returned or raised
    dirsBefore, \* the directories when it was entered
    pathCalls,  \* validator calls made
    prevMade,   \* directories the call before created, when that call was
                \* a successful _resolve_mkdir of the same value; else 0
    \* a configuration object saved and loaded
    cfgX,       \* the object x, once constructed
    cfgPc,      \* "new", "built" or "failed"
    jsonFile,   \* the file write_json wrote
    yamlFile,   \* the file write_yaml wrote
    wjRes,      \* how write_json(x) ended
    wyRes,      \* how write_yaml(x) ended
    loadJson,   \* how from_json ended, and its object
    loadYaml    \* how from_yaml ended, and its object

streamVars == <<sinkS, stdoutS, stderrS>>
procVars == <<child, pipe, rc>>
convVars == <<err, files, sdfFile, pdbFile>>
tmpVars == <<tmpExists, outSdf>>
smiVars == <<logEnabled, logPrior, smiles, isValid>>
endVars == <<retval, exc, exitCode>>
bufVars == <<sinkBuf, stdoutBuf, sinkPend, stdoutPend>>
modeVars == <<sinkMode, stdoutMode>>
combVars == <<prot_pdb, lig_pdb, comp_pdb>>
cleanVars == <<pdb_file, output_pdb>>

hostVars == <<pc, op, caller, calls, sinkArg, streamVars, procVars, convVars,
              tmpVars, smiVars, endVars, bufVars, modeVars, combVars,
              cleanVars>>

seqVars == <<three_to_one, resnames, seq, resIdx, seqPc>>
argVars == <<args, v, raw, keyIdx, ctorArg, argPc>>

fsVars == <<dirs, regs, cwd>>
pathVars == <<pathOp, pathArg, pathRes, dirsBefore, pathCalls, prevMade>>
cfgVars == <<cfgX, cfgPc, jsonFile, yamlFile, wjRes, wyRes, loadJson, loadYaml>>

vars == <<hostVars, seqVars, argVars, fsVars, pathVars, cfgVars>>

\* what the actions of one part leave alone
notHost == <<seqVars, argVars, fsVars, pathVars, cfgVars>>
notSeq == <<hostVars, argVars, fsVars, pathVars, cfgVars>>
notArg == <<hostVars, seqVars, fsVars, pathVars, cfgVars>>
notPath == <<hostVars, seqVars, argVars, cfgVars>>
notCfg == <<hostVars, seqVars, argVars, pathVars>>

\* what the calls that print nothing and merge nothing leave alone
hostRest == <<bufVars, modeVars, combVars, cleanVars, notHost>>

\* ------------------------------------------------------- the host process

\* exit codes a child can end with: success, failure, and death by signal
\* (Popen.wait() gives -N for signal N)
RcValues == {0, 1, -9}

\* a child: its state, its exit code once it has exited, and the blocks it
\* has yet to write to its standard error and output
NoChild == [st |-> "none", rc |-> 0, errLeft |-> 0, outLeft |-> 0]

Absent == [exists |-> FALSE, size |-> 0]
Stale == [exists |-> TRUE, size |-> 1]

SdfInputs == {<<"l", ".", "s", "d", "f">>, <<"a", "b">>}
GivenPdb == <<"d", "/", "o", ".", "p", "d", "b">>

\* sdf_file[:-3] + "pdb"
DerivePdb(s) ==
    (IF Len(s) > 3 THEN SubSeq(s, 1, Len(s) - 3) ELSE << >>) \o <<"p", "d", "b">>

\* the paths sdf2pdb writes
SdfPdbPaths == {DerivePdb(s) : s \in SdfInputs} \cup {GivenPdb}

\* the structures comb_pdb and clean_pdb are called on, and the protein
\* among them
PdbInputs == {GivenPdb, <<"l", ".", "p", "d", "b">>}
ProtInputs == {GivenPdb}

\* positions of "/" in a path
Slashes(p) == {i \in DOMAIN p : p[i] = "/"}
LastSlash(p) == CHOOSE i \in Slashes(p) : \A j \in Slashes(p) : j <= i

\* os.path.basename(p): what follows the last "/"
Basename(p) ==
    IF Slashes(p) = {} THEN p ELSE SubSeq(p, LastSlash(p) + 1, Len(p))

\* head.rstrip("/")
RECURSIVE RStripSlash(_)
RStripSlash(h) ==
    IF h # << >> /\ h[Len(h)] = "/" THEN RStripSlash(SubSeq(h, 1, Len(h) - 1))
    ELSE h

\* os.path.dirname(p): the head up to the last "/", without its trailing
\* slashes unless it is nothing but slashes
Dirname(p) ==
    IF Slashes(p) = {} THEN << >>
    ELSE IF \A i \in 1..LastSlash(p) : p[i] = "/"
         THEN SubSeq(p, 1, LastSlash(p))
         ELSE RStripSlash(SubSeq(p, 1, LastSlash(p)))

\* os.path.basename(pdb_file)[:-4]
get_pdblabel(p) ==
    IF Len(Basename(p)) > 4 THEN SubSeq(Basename(p), 1, Len(Basename(p)) - 4)
    ELSE << >>

\* f"{os.path.dirname(lig_pdb)}/{get_pdblabel(prot_pdb)}_{get_pdblabel(lig_pdb)}.pdb"
DeriveComp(prot, lig) ==
    Dirname(lig) \o <<"/">> \o get_pdblabel(prot) \o <<"_">>
        \o get_pdblabel(lig) \o <<".", "p", "d", "b">>

\* the paths comb_pdb derives
CombPaths == {DeriveComp(p, l) : p \in ProtInputs, l \in PdbInputs}

PdbPaths == SdfPdbPaths \cup PdbInputs \cup CombPaths

\* A text stream is a text layer over a binary buffer over the file: file is
\* what reached the file, buf what the binary buffer holds, pend what the
\* text layer holds
Stream(S, W, T) == [file |-> S, buf |-> W, pend |-> T]

\* the text layer hands its pending text to the binary buffer, whose write
\* takes it in when it fits ("fits"); else writes its own content to the
\* file and takes the text in ("flush"), or, when the text is larger than
\* the whole buffer, writes the text to the file as well ("direct")
BufferWays == {"fits", "flush", "direct"}
WriteFlush(st, way) ==
    CASE way = "fits" -> Stream(st.file, st.buf \o st.pend, << >>)
      [] way = "flush" -> Stream(st.file \o st.buf, st.pend, << >>)
      [] OTHER -> Stream(st.file \o st.buf \o st.pend, << >>, << >>)

\* how one print goes on a block-buffered stream, which the sizes of the
\* texts decide: pre, the pending text and the new one exceed the text
\* layer's chunk, so the pending text is handed down first (way w1); post,
\* what is pending after the new text was added fills the chunk and is
\* handed down (way w2).  A pending text too large for the binary buffer is
\* followed by no new text that fits in it; the way of a step not taken is
\* left at "fits"
PrintOutcomes ==
    {o \in [pre : BOOLEAN, w1 : BufferWays, post : BOOLEAN, w2 : BufferWays] :
        /\ (o.pre /\ o.post /\ o.w1 = "direct") => o.w2 = "direct"
        /\ ~o.pre => o.w1 = "fits"
        /\ ~o.post => o.w2 = "fits"}

\* print(msg, file=f) on the stream st: a line-buffered stream writes all
\* through to the file; a block-buffered one goes as the outcome o says
PyPrint(st, mode, msg, o) ==
    IF mode = "line"
    THEN Stream(st.file \o st.buf \o st.pend \o <<msg>>, << >>, << >>)
    ELSE LET s1 == IF o.pre /\ st.pend # << >> THEN WriteFlush(st, o.w1)
                   ELSE st
             s2 == [s1 EXCEPT !.pend = Append(@, msg)]
         IN  IF o.post THEN WriteFlush(s2, o.w2) ELSE s2

\* flush() or close(): all that is held goes to the file
FlushAll(st) == Stream(st.file \o st.buf \o st.pend, << >>, << >>)

NoRet == [kind |-> "none", returncode |-> 0, path |-> << >>, flag |-> FALSE]

\* inputs of validate_smiles: a valid SMILES, an invalid one, and a value
\* Chem.MolFromSmiles rejects with an exception (not a string)
SmilesInputs == {"CCO", "not a smiles", "NotAString"}

\* Chem.MolFromSmiles on the sample inputs: a molecule, None, or a raise
MolFromSmiles(s) ==
    CASE s = "CCO" -> "mol"
      [] s = "not a smiles" -> "None"
      [] OTHER -> "raise"

\* the plain start of a host: no PDB file yet, the log switched on, both
\* streams line-buffered.  A start departs from it in one respect at a
\* time; a block-buffered stream may hold a text the host printed before
NoFiles == [q \in PdbPaths |-> Absent]
Departures(f, log, sm, om) ==
    (IF f = NoFiles THEN 0 ELSE 1) + (IF log THEN 0 ELSE 1)
        + (IF sm = "line" THEN 0 ELSE 1) + (IF om = "line" THEN 0 ELSE 1)

HostInit ==
    /\ pc = "idle"
    /\ op = "none"
    /\ caller = "host"
    /\ calls = 0
    /\ sinkArg = "None"
    /\ sinkS = << >>
    /\ stdoutS = << >>
    /\ stderrS = << >>
    /\ child = NoChild
    /\ pipe = 0
    /\ rc = 0
    /\ err = 0
    /\ files \in {NoFiles,
                  [q \in PdbPaths |-> IF q \in SdfPdbPaths THEN Stale
                                      ELSE Absent]}
    /\ sdfFile = << >>
    /\ pdbFile = << >>
    /\ prot_pdb = << >>
    /\ lig_pdb = << >>
    /\ comp_pdb = << >>
    /\ pdb_file = << >>
    /\ output_pdb = << >>
    /\ sinkBuf = << >>
    /\ stdoutBuf = << >>
    /\ sinkMode \in {"line", "block"}
    /\ stdoutMode \in {"line", "block"}
    /\ sinkPend \in {p \in {<< >>, <<"host">>} :
                        p = << >> \/ sinkMode = "block"}
    /\ stdoutPend \in {p \in {<< >>, <<"host">>} :
                          p = << >> \/ stdoutMode = "block"}
    /\ retval = NoRet
    /\ exc = "none"
    /\ exitCode = << >>
    /\ tmpExists = FALSE
    /\ outSdf = "missing"
    /\ logEnabled \in BOOLEAN
    /\ Departures(files, logEnabled, sinkMode, stdoutMode) <= 1
    /\ logPrior = TRUE
    /\ smiles = "CCO"
    /\ isValid = FALSE

\* the host part at rest, for the runs of the other parts
HostIdle ==
    /\ HostInit
    /\ files = NoFiles
    /\ logEnabled = TRUE
    /\ sinkMode = "line"
    /\ stdoutMode = "line"

CanCall == pc = "idle" /\ calls < MaxCalls /\ exitCode = << >>

\* the arguments of a call; a function has the ones it declares
NoArgs == [output_file |-> "None", sdf_file |-> << >>, pdb_file |-> << >>,
           prot_pdb |-> << >>, lig_pdb |-> << >>, comp_pdb |-> << >>,
           output_pdb |-> << >>, smiles_str |-> "CCO"]

\* the host script calls function f with arguments a: a new frame, with
\* nothing left of the frames of the calls before
EnterCall(f, a, start) ==
    /\ op' = f
    /\ caller' = IF f = "cal_cnn_aff" THEN "cal_cnn_aff" ELSE "host"
    /\ pc' = start
    /\ retval' = NoRet
    /\ sinkArg' = a.output_file
    /\ sdfFile' = a.sdf_file
    /\ pdbFile' = IF f = "sdf2pdb" THEN a.pdb_file ELSE << >>
    /\ pdb_file' = IF f = "clean_pdb" THEN a.pdb_file ELSE << >>
    /\ prot_pdb' = a.prot_pdb
    /\ lig_pdb' = a.lig_pdb
    /\ comp_pdb' = a.comp_pdb
    /\ output_pdb' = a.output_pdb
    /\ smiles' = a.smiles_str
    /\ child' = NoChild
    /\ pipe' = 0
    /\ rc' = 0
    /\ err' = 0
    /\ isValid' = FALSE
    /\ logPrior' = IF f = "validate_smiles" THEN logEnabled ELSE TRUE
    /\ outSdf' = "missing"
    /\ tmpExists' = (f = "cal_cnn_aff")
    /\ UNCHANGED <<calls, streamVars, bufVars, modeVars, files, logEnabled,
                   exc, exitCode>>
    /\ UNCHANGED notHost

\* a slip of the test: only positive codes count as failure
RcFailedPositiveOnly(r) == r > 0

\* rc != 0
RcFailed(r) == r # 0

\* a slip of the test: the size is never found to be zero
OutputIsEmptyNever(size) == size < 0

\* os.path.getsize(pdb_file) == 0
OutputIsEmpty(size) == size = 0

\* ---- the child process (the shell command, obabel, gnina)

\* the child writes a block to its standard output: the sink of run_and_save,
\* the opened pdb_file of sdf2pdb
ChildWriteOut ==
    /\ child.st = "running"
    /\ child.outLeft > 0
    /\ child' = [child EXCEPT !.outLeft = @ - 1]
    /\ IF op = "sdf2pdb"
       THEN /\ files' = [files EXCEPT ![pdbFile].size = @ + 1]
            /\ UNCHANGED <<sinkS, stdoutS>>
       ELSE /\ IF sinkArg = "None"
               THEN stdoutS' = Append(stdoutS, "child") /\ UNCHANGED sinkS
               ELSE sinkS' = Append(sinkS, "child") /\ UNCHANGED stdoutS
            /\ UNCHANGED files
    /\ UNCHANGED <<pc, op, caller, calls, sinkArg, stderrS, pipe, rc, err,
                   sdfFile, pdbFile, tmpVars, smiVars, endVars>>
    /\ UNCHANGED hostRest

\* the child writes a block to its stderr pipe; the write blocks while the
\* pipe is full
ChildWriteErr ==
    /\ child.st = "running"
    /\ child.errLeft > 0
    /\ pipe < PipeCap
    /\ child' = [child EXCEPT !.errLeft = @ - 1]
    /\ pipe' = pipe + 1
    /\ UNCHANGED <<pc, op, caller, calls, sinkArg, streamVars, rc, convVars,
                   tmpVars, smiVars, endVars>>
    /\ UNCHANGED hostRest

\* the child exits, with some code, once all its output is written; the
\* scoring binary leaves its -o file missing, empty or holding a record
ChildExit ==
    /\ child.st = "running"
    /\ child.errLeft = 0
    /\ child.outLeft = 0
    /\ \E code \in RcValues :
          child' = [child EXCEPT !.st = "exited", !.rc = code]
    /\ IF caller = "cal_cnn_aff"
       THEN \E o \in {"missing", "empty", "record"} : outSdf' = o
       ELSE UNCHANGED outSdf
    /\ UNCHANGED <<pc, op, caller, calls, sinkArg, streamVars, pipe, rc,
                   convVars, tmpExists, smiVars, endVars>>
    /\ UNCHANGED hostRest

\* ---- the host script and the interpreter

\* the call returns to the host script
BackToHost(result) ==
    /\ retval' = result
    /\ pc' = "idle"
    /\ calls' = calls + 1

\* the host script flushes sys.stdout, or flushes or closes the file it
\* passed as output_file
HostFlush ==
    /\ pc = "idle"
    /\ exitCode = << >>
    /\ \/ /\ sinkBuf \o sinkPend # << >>
          /\ sinkS' = FlushAll(Stream(sinkS, sinkBuf, sinkPend)).file
          /\ sinkBuf' = << >>
          /\ sinkPend' = << >>
          /\ UNCHANGED <<stdoutS, stdoutBuf, stdoutPend>>
       \/ /\ stdoutBuf \o stdoutPend # << >>
          /\ stdoutS' = FlushAll(Stream(stdoutS, stdoutBuf, stdoutPend)).file
          /\ stdoutBuf' = << >>
          /\ stdoutPend' = << >>
          /\ UNCHANGED <<sinkS, sinkBuf, sinkPend>>
    /\ UNCHANGED <<pc, op, caller, calls, sinkArg, stderrS, procVars, convVars,
                   tmpVars, smiVars, endVars>>
    /\ UNCHANGED <<modeVars, combVars, cleanVars, notHost>>

\* SystemExit, or an exception nobody catches, reaches the top of the
\* script: the traceback of an exception is printed, the interpreter runs its
\* exit hooks (weakref.finalize of a live TemporaryDirectory removes it),
\* flushes sys.stdout and the open files, and the process ends with status 1
HostTerminate ==
    /\ pc = "unwind"
    /\ stderrS' = IF exc = "SystemExit" THEN stderrS
                  ELSE Append(stderrS, "Traceback")
    /\ stdoutS' = FlushAll(Stream(stdoutS, stdoutBuf, stdoutPend)).file
    /\ sinkS' = FlushAll(Stream(sinkS, sinkBuf, sinkPend)).file
    /\ stdoutBuf' = << >>
    /\ sinkBuf' = << >>
    /\ stdoutPend' = << >>
    /\ sinkPend' = << >>
    /\ tmpExists' = FALSE
    /\ exitCode' = <<1>>
    /\ pc' = "terminated"
    /\ UNCHANGED <<op, caller, calls, sinkArg, procVars, convVars, outSdf,
                   smiVars, retval, exc>>
    /\ UNCHANGED <<modeVars, combVars, cleanVars, notHost>>

\* ---- run_and_save(cmd, cwd, output_file)

CallRunAndSave ==
    /\ CanCall
    /\ \E o \in {"None", "file"} :
           EnterCall("run_and_save", [NoArgs EXCEPT !.output_file = o], "r_echo")

\* print(cmd, file=output_file): file=None prints to sys.stdout.  The text
\* goes through the stream's buffer, while the child started next writes to
\* the descriptor behind it
RunEcho ==
    /\ pc = "r_echo"
    /\ \E o \in PrintOutcomes :
          IF sinkArg = "None"
          THEN LET r == PyPrint(Stream(stdoutS, stdoutBuf, stdoutPend),
                                stdoutMode, "cmd", o)
               IN  /\ stdoutS' = r.file
                   /\ stdoutBuf' = r.buf
                   /\ stdoutPend' = r.pend
                   /\ UNCHANGED <<sinkS, sinkBuf, sinkPend>>
          ELSE LET r == PyPrint(Stream(sinkS, sinkBuf, sinkPend),
                                sinkMode, "cmd", o)
               IN  /\ sinkS' = r.file
                   /\ sinkBuf' = r.buf
                   /\ sinkPend' = r.pend
                   /\ UNCHANGED <<stdoutS, stdoutBuf, stdoutPend>>
    /\ pc' = "r_popen"
    /\ UNCHANGED <<op, caller, calls, sinkArg, stderrS, procVars, convVars,
                   tmpVars, smiVars, endVars>>
    /\ UNCHANGED <<modeVars, combVars, cleanVars, notHost>>

\* subprocess.Popen(cmd, shell=True, stdout=output_file, stderr=STDOUT): the
\* child's stderr goes where its stdout goes, no pipe
RunPopen ==
    /\ pc = "r_popen"
    /\ \E n \in 0..MaxOut :
          child' = [st |-> "running", rc |-> 0, errLeft |-> 0, outLeft |-> n]
    /\ pc' = "r_wait"
    /\ UNCHANGED <<op, caller, calls, sinkArg, streamVars, pipe, rc, convVars,
                   tmpVars, smiVars, endVars>>
    /\ UNCHANGED hostRest

\* rc = process.wait(); if rc != 0:
RunWait ==
    /\ pc = "r_wait"
    /\ child.st = "exited"
    /\ rc' = child.rc
    /\ pc' = IF RcFailed(child.rc) THEN "r_fail" ELSE "r_return"
    /\ UNCHANGED <<op, caller, calls, sinkArg, streamVars, child, pipe,
                   convVars, tmpVars, smiVars, endVars>>
    /\ UNCHANGED hostRest

\* print(f"Failure running {cmd}", file=sys.stderr)
RunFailPrint ==
    /\ pc = "r_fail"
    /\ stderrS' = Append(stderrS, "Failure running")
    /\ pc' = "r_exit"
    /\ UNCHANGED <<op, caller, calls, sinkArg, sinkS, stdoutS, procVars,
                   convVars, tmpVars, smiVars, endVars>>
    /\ UNCHANGED hostRest

\* sys.exit(1): SystemExit leaves run_and_save and its caller's frame
RunExit ==
    /\ pc = "r_exit"
    /\ exc' = "SystemExit"
    /\ pc' = "unwind"
    /\ UNCHANGED <<op, caller, calls, sinkArg, streamVars, procVars, convVars,
                   tmpVars, smiVars, retval, exitCode>>
    /\ UNCHANGED hostRest

\* return process: to the host, or back into cal_cnn_aff
RunReturn ==
    /\ pc = "r_return"
    /\ IF caller = "cal_cnn_aff"
       THEN /\ pc' = "c_read"
            /\ UNCHANGED <<calls, retval>>
       ELSE BackToHost([NoRet EXCEPT !.kind = "process", !.returncode = rc])
    /\ UNCHANGED <<op, caller, sinkArg, streamVars, procVars, convVars,
                   tmpVars, smiVars, exc, exitCode>>
    /\ UNCHANGED hostRest

\* ---- sdf2pdb(sdf_file, pdb_file=None)

\* if pdb_file is None: pdb_file = sdf_file[:-3] + "pdb"
CallSdf2pdb ==
    /\ CanCall
    /\ \E s \in SdfInputs, given \in BOOLEAN :
           EnterCall("sdf2pdb",
                     [NoArgs EXCEPT !.sdf_file = s,
                                    !.pdb_file = IF given THEN GivenPdb
                                                 ELSE DerivePdb(s)],
                     "s_remove")

\* if os.path.exists(pdb_file): os.remove(pdb_file)
SdfRemove ==
    /\ pc = "s_remove"
    /\ files' = IF files[pdbFile].exists THEN [files EXCEPT ![pdbFile] = Absent]
                ELSE files
    /\ pc' = "s_open"
    /\ UNCHANGED <<op, caller, calls, sinkArg, streamVars, procVars, err,
                   sdfFile, pdbFile, tmpVars, smiVars, endVars>>
    /\ UNCHANGED hostRest

\* with open(pdb_file, "w") as fh:
SdfOpen ==
    /\ pc = "s_open"
    /\ files' = [files EXCEPT ![pdbFile] = [exists |-> TRUE, size |-> 0]]
    /\ pc' = "s_popen"
    /\ UNCHANGED <<op, caller, calls, sinkArg, streamVars, procVars, err,
                   sdfFile, pdbFile, tmpVars, smiVars, endVars>>
    /\ UNCHANGED hostRest

\* p = subprocess.Popen(cmd, shell=False, stdout=fh, stderr=subprocess.PIPE);
\* without a shell a missing obabel makes Popen raise OSError
SdfPopen ==
    /\ pc = "s_popen"
    /\ \/ /\ \E e \in 0..MaxErr, n \in 0..MaxOut :
                child' = [st |-> "running", rc |-> 0, errLeft |-> e,
                          outLeft |-> n]
          /\ pipe' = 0
          /\ pc' = "s_wait"
          /\ UNCHANGED exc
       \/ /\ exc' = "OSError"
          /\ pc' = "unwind"
          /\ UNCHANGED <<child, pipe>>
    /\ UNCHANGED <<op, caller, calls, sinkArg, streamVars, rc, convVars,
                   tmpVars, smiVars, retval, exitCode>>
    /\ UNCHANGED hostRest

\* rc = p.wait()
SdfWait ==
    /\ pc = "s_wait"
    /\ child.st = "exited"
    /\ rc' = child.rc
    /\ pc' = "s_read"
    /\ UNCHANGED <<op, caller, calls, sinkArg, streamVars, child, pipe,
                   convVars, tmpVars, smiVars, endVars>>
    /\ UNCHANGED hostRest

\* err = p.stderr.read(); if rc != 0:
SdfRead ==
    /\ pc = "s_read"
    /\ err' = pipe
    /\ pipe' = 0
    /\ pc' = IF RcFailed(rc) THEN "s_fail_rc" ELSE "s_size"
    /\ UNCHANGED <<op, caller, calls, sinkArg, streamVars, child, rc, files,
                   sdfFile, pdbFile, tmpVars, smiVars, endVars>>
    /\ UNCHANGED hostRest

\* print(f"Failure rc=f{rc} converting ...: {err}"): print() without file=
\* writes to sys.stdout
SdfFailRcPrint ==
    /\ pc = "s_fail_rc"
    /\ \E o \in PrintOutcomes :
          LET r == PyPrint(Stream(stdoutS, stdoutBuf, stdoutPend),
                           stdoutMode, "Failure rc", o)
          IN  /\ stdoutS' = r.file
              /\ stdoutBuf' = r.buf
              /\ stdoutPend' = r.pend
    /\ pc' = "s_exit"
    /\ UNCHANGED <<op, caller, calls, sinkArg, sinkS, sinkBuf, sinkPend,
                   stderrS, procVars, convVars, tmpVars, smiVars, endVars>>
    /\ UNCHANGED <<modeVars, combVars, cleanVars, notHost>>

\* if os.path.getsize(pdb_file) == 0:
SdfSize ==
    /\ pc = "s_size"
    /\ pc' = IF OutputIsEmpty(files[pdbFile].size) THEN "s_fail_empty"
             ELSE "s_return"
    /\ UNCHANGED <<op, caller, calls, sinkArg, streamVars, procVars, convVars,
                   tmpVars, smiVars, endVars>>
    /\ UNCHANGED hostRest

\* print(f"Failure (output is empty) converting ... err={err}"), to sys.stdout
SdfFailEmptyPrint ==
    /\ pc = "s_fail_empty"
    /\ \E o \in PrintOutcomes :
          LET r == PyPrint(Stream(stdoutS, stdoutBuf, stdoutPend),
                           stdoutMode, "Failure (output is empty)", o)
          IN  /\ stdoutS' = r.file
              /\ stdoutBuf' = r.buf
              /\ stdoutPend' = r.pend
    /\ pc' = "s_exit"
    /\ UNCHANGED <<op, caller, calls, sinkArg, sinkS, sinkBuf, sinkPend,
                   stderrS, procVars, convVars, tmpVars, smiVars, endVars>>
    /\ UNCHANGED <<modeVars, combVars, cleanVars, notHost>>

\* sys.exit(1)
SdfExit ==
    /\ pc = "s_exit"
    /\ exc' = "SystemExit"
    /\ pc' = "unwind"
    /\ UNCHANGED <<op, caller, calls, sinkArg, streamVars, procVars, convVars,
                   tmpVars, smiVars, retval, exitCode>>
    /\ UNCHANGED hostRest

\* return pdb_file
SdfReturn ==
    /\ pc = "s_return"
    /\ BackToHost([NoRet EXCEPT !.kind = "path", !.path = pdbFile])
    /\ UNCHANGED <<op, caller, sinkArg, streamVars, procVars, convVars,
                   tmpVars, smiVars, exc, exitCode>>
    /\ UNCHANGED hostRest

\* ---- validate_smiles(smiles_str)

\* is_valid = False
CallValidateSmiles ==
    /\ CanCall
    /\ \E s \in SmilesInputs :
           EnterCall("validate_smiles", [NoArgs EXCEPT !.smiles_str = s],
                     "v_disable")

\* RDLogger.DisableLog("rdApp.error")
SmilesDisableLog ==
    /\ pc = "v_disable"
    /\ logEnabled' = FALSE
    /\ pc' = "v_parse"
    /\ UNCHANGED <<op, caller, calls, sinkArg, streamVars, procVars, convVars,
                   tmpVars, logPrior, smiles, isValid, endVars>>
    /\ UNCHANGED hostRest

\* if Chem.MolFromSmiles(smiles_str) is not None: is_valid = True
SmilesParse ==
    /\ pc = "v_parse"
    /\ IF MolFromSmiles(smiles) = "raise"
       THEN /\ exc' = "ArgumentError"
            /\ pc' = "unwind"
            /\ UNCHANGED isValid
       ELSE /\ isValid' = (MolFromSmiles(smiles) # "None")
            /\ pc' = "v_enable"
            /\ UNCHANGED exc
    /\ UNCHANGED <<op, caller, calls, sinkArg, streamVars, procVars, convVars,
                   tmpVars, logEnabled, logPrior, smiles, retval, exitCode>>
    /\ UNCHANGED hostRest

\* RDLogger.EnableLog("rdApp.error")
SmilesEnableLog ==
    /\ pc = "v_enable"
    /\ logEnabled' = TRUE
    /\ pc' = "v_return"
    /\ UNCHANGED <<op, caller, calls, sinkArg, streamVars, procVars, convVars,
                   tmpVars, logPrior, smiles, isValid, endVars>>
    /\ UNCHANGED hostRest

\* return is_valid
SmilesReturn ==
    /\ pc = "v_return"
    /\ BackToHost([NoRet EXCEPT !.kind = "bool", !.flag = isValid])
    /\ UNCHANGED <<op, caller, sinkArg, streamVars, procVars, convVars,
                   tmpVars, smiVars, exc, exitCode>>
    /\ UNCHANGED hostRest

\* ---- cal_cnn_aff(pdb_file, sdf_file, gnina_exe, log_handle)

\* tempdir = tempfile.TemporaryDirectory(); cmd = ...;
\* run_and_save(cmd, output_file=log_handle)
CallCalCnnAff ==
    /\ CanCall
    /\ \E o \in {"None", "file"} :
           EnterCall("cal_cnn_aff", [NoArgs EXCEPT !.output_file = o], "r_echo")

\* mol = next(pybel.readfile("sdf", output_sdf)): a missing file raises
\* OSError, a file without a record StopIteration.  return mol: the frame's
\* last reference to tempdir goes and its finalizer removes the directory
CalRead ==
    /\ pc = "c_read"
    /\ IF outSdf = "record"
       THEN /\ BackToHost([NoRet EXCEPT !.kind = "mol"])
            /\ tmpExists' = FALSE
            /\ UNCHANGED exc
       ELSE /\ exc' = IF outSdf = "missing" THEN "OSError" ELSE "StopIteration"
            /\ pc' = "unwind"
            /\ UNCHANGED <<calls, retval, tmpExists>>
    /\ UNCHANGED <<op, caller, sinkArg, streamVars, procVars, convVars,
                   outSdf, smiVars, exitCode>>
    /\ UNCHANGED hostRest

\* ---- comb_pdb(prot_pdb, lig_pdb, comp_pdb=None)

\* if comp_pdb is None: comp_pdb = f"{dirname(lig_pdb)}/{label}_{label}.pdb"
CallCombPdb ==
    /\ CanCall
    /\ \E p \in ProtInputs, l \in PdbInputs, given \in BOOLEAN :
           EnterCall("comb_pdb",
                     [NoArgs EXCEPT !.prot_pdb = p, !.lig_pdb = l,
                                    !.comp_pdb = IF given THEN GivenPdb
                                                 ELSE DeriveComp(p, l)],
                     "m_remove")

\* if os.path.exists(comp_pdb): os.remove(comp_pdb)
CombRemove ==
    /\ pc = "m_remove"
    /\ files' = IF files[comp_pdb].exists
                THEN [files EXCEPT ![comp_pdb] = Absent]
                ELSE files
    /\ pc' = "m_load"
    /\ UNCHANGED <<op, caller, calls, sinkArg, streamVars, procVars, err,
                   sdfFile, pdbFile, tmpVars, smiVars, endVars>>
    /\ UNCHANGED hostRest

\* prot_u = mda.Universe(prot_pdb); lig_u = mda.Universe(lig_pdb): a missing
\* file raises
CombLoad ==
    /\ pc = "m_load"
    /\ IF files[prot_pdb].exists /\ files[lig_pdb].exists
       THEN pc' = "m_write" /\ UNCHANGED exc
       ELSE pc' = "unwind" /\ exc' = "FileNotFoundError"
    /\ UNCHANGED <<op, caller, calls, sinkArg, streamVars, procVars, convVars,
                   tmpVars, smiVars, retval, exitCode>>
    /\ UNCHANGED hostRest

\* merged = mda.Merge(prot_u.atoms, lig_u.atoms);
\* merged.atoms.write(comp_pdb); return comp_pdb
CombWrite ==
    /\ pc = "m_write"
    /\ files' = [files EXCEPT ![comp_pdb] = [exists |-> TRUE, size |-> 1]]
    /\ BackToHost([NoRet EXCEPT !.kind = "path", !.path = comp_pdb])
    /\ UNCHANGED <<op, caller, sinkArg, streamVars, procVars, err, sdfFile,
                   pdbFile, tmpVars, smiVars, exc, exitCode>>
    /\ UNCHANGED hostRest

\* ---- clean_pdb(pdb_file, output_pdb), the output being another file than
\* the input

CallCleanPdb ==
    /\ CanCall
    /\ \E i \in PdbInputs : \E o \in PdbInputs \ {i} :
           EnterCall("clean_pdb",
                     [NoArgs EXCEPT !.pdb_file = i, !.output_pdb = o], "k_load")

\* mda_u = mda.Universe(pdb_file): a missing file raises
CleanLoad ==
    /\ pc = "k_load"
    /\ IF files[pdb_file].exists
       THEN pc' = "k_write" /\ UNCHANGED exc
       ELSE pc' = "unwind" /\ exc' = "FileNotFoundError"
    /\ UNCHANGED <<op, caller, calls, sinkArg, streamVars, procVars, convVars,
                   tmpVars, smiVars, retval, exitCode>>
    /\ UNCHANGED hostRest

\* protein = mda_u.select_atoms("protein"); protein.write(output_pdb);
\* return output_pdb.  The write replaces the output; a selection without
\* atoms makes write raise IndexError before the file is opened
CleanWrite ==
    /\ pc = "k_write"
    /\ \E found \in BOOLEAN :
          IF found
          THEN /\ files' = [files EXCEPT
                              ![output_pdb] = [exists |-> TRUE, size |-> 1]]
               /\ BackToHost([NoRet EXCEPT !.kind = "path",
                                           !.path = output_pdb])
               /\ UNCHANGED exc
          ELSE /\ exc' = "IndexError"
               /\ pc' = "unwind"
               /\ UNCHANGED <<files, calls, retval>>
    /\ UNCHANGED <<op, caller, sinkArg, streamVars, procVars, err, sdfFile,
                   pdbFile, tmpVars, smiVars, exitCode>>
    /\ UNCHANGED hostRest

\* ------------------------------------------------------------- pdb2seq

\* residues of one structure
MaxResidues == 3

ThreeToOne ==
    [n \in {"ALA", "ARG", "ASN", "ASP", "CYS", "GLN", "GLU", "GLY", "HIS",
            "ILE", "LEU", "LYS", "MET", "MSE", "PHE", "PRO", "PYL", "SER",
            "SEC", "THR", "TRP", "TYR", "VAL", "ASX", "GLX", "XAA", "XLE"} |->
        CASE n = "ALA" -> "A" [] n = "ARG" -> "R" [] n = "ASN" -> "N"
          [] n = "ASP" -> "D" [] n = "CYS" -> "C" [] n = "GLN" -> "Q"
          [] n = "GLU" -> "E" [] n = "GLY" -> "G" [] n = "HIS" -> "H"
          [] n = "ILE" -> "I" [] n = "LEU" -> "L" [] n = "LYS" -> "K"
          [] n = "MET" -> "M" [] n = "MSE" -> "M" [] n = "PHE" -> "F"
          [] n = "PRO" -> "P" [] n = "PYL" -> "O" [] n = "SER" -> "S"
          [] n = "SEC" -> "U" [] n = "THR" -> "T" [] n = "TRP" -> "W"
          [] n = "TYR" -> "Y" [] n = "VAL" -> "V" [] n = "ASX" -> "B"
          [] n = "GLX" -> "Z" [] n = "XAA" -> "X" [] n = "XLE" -> "J"]

\* residue names met in the structures: table entries and unknown names
ResNameSample == {"ALA", "GLY", "MSE", "XLE", "XYZ", "HOH"}

SeqsUpTo(S, n) == UNION {[1..k -> S] : k \in 0..n}

SeqIdle ==
    /\ three_to_one = ThreeToOne
    /\ resnames = << >>
    /\ seq = << >>
    /\ resIdx = 0
    /\ seqPc = "idle"

SeqInit ==
    /\ three_to_one = ThreeToOne
    /\ resnames \in SeqsUpTo(ResNameSample, MaxResidues)
    /\ seq = << >>
    /\ resIdx = 0
    /\ seqPc = "start"

\* a slip of the lookup: an unknown residue is dropped, not marked
ResidueLetterSkipUnknown(table, resname) ==
    IF resname \in DOMAIN table THEN <<table[resname]>> ELSE << >>

\* if res.resname in three_to_one: three_to_one[res.resname] else "-"
ResidueLetter(table, resname) ==
    IF resname \in DOMAIN table THEN <<table[resname]>> ELSE <<"-">>

\* mda_u = mda.Universe(pdb_file); protein = ...; seq = ""
Pdb2seqLoad ==
    /\ seqPc = "start"
    /\ seq' = << >>
    /\ resIdx' = 0
    /\ seqPc' = "loop"
    /\ UNCHANGED <<three_to_one, resnames>>
    /\ UNCHANGED notSeq

\* one pass of: for res in protein.residues: seq += ...
Pdb2seqStep ==
    /\ seqPc = "loop"
    /\ resIdx < Len(resnames)
    /\ seq' = seq \o ResidueLetter(three_to_one, resnames[resIdx + 1])
    /\ resIdx' = resIdx + 1
    /\ UNCHANGED <<three_to_one, resnames, seqPc>>
    /\ UNCHANGED notSeq

\* return seq
Pdb2seqReturn ==
    /\ seqPc = "loop"
    /\ resIdx = Len(resnames)
    /\ seqPc' = "returned"
    /\ UNCHANGED <<three_to_one, resnames, seq, resIdx>>
    /\ UNCHANGED notSeq

\* ----------------------------------------------------------- from_args

Whitelist ==
    <<"name", "receptor_pdb", "drug_dbs", "diffdock_dir", "output_dir", "top_n">>

\* names an argument parser may define: the six, and others
ArgNames == {Whitelist[i] : i \in DOMAIN Whitelist} \cup {"debug"}

\* values of an argument; an option not given on the command line is present
\* in the Namespace with the value None
ArgValues == {"foo", "None"}

EmptyDict == [k \in {} |-> "None"]

ArgIdle ==
    /\ args = EmptyDict
    /\ v = EmptyDict
    /\ raw = EmptyDict
    /\ keyIdx = 0
    /\ ctorArg = EmptyDict
    /\ argPc = "idle"

ArgInit ==
    /\ args \in UNION {[D -> ArgValues] : D \in SUBSET ArgNames}
    /\ v = EmptyDict
    /\ raw = EmptyDict
    /\ keyIdx = 0
    /\ ctorArg = EmptyDict
    /\ argPc = "start"

\* a slip of the test: an argument whose value is None counts as absent
KeyInArgsNotNone(key, a) == key \in DOMAIN a /\ a[key] # "None"

\* key in args (Namespace.__contains__)
KeyInArgs(key, a) == key \in DOMAIN a

\* d[key] = value
DictSet(d, key, value) ==
    [k \in DOMAIN d \cup {key} |-> IF k = key THEN value ELSE d[k]]

\* v = {}; adict = vars(args); raw = {"dock": v}
FromArgsStart ==
    /\ argPc = "start"
    /\ v' = EmptyDict
    /\ raw' = [dock |-> EmptyDict]
    /\ keyIdx' = 0
    /\ argPc' = "loop"
    /\ UNCHANGED <<args, ctorArg>>
    /\ UNCHANGED notArg

\* one pass of: for key in [...]: if key in args: v[key] = adict[key];
\* raw["dock"] is v itself and changes with it
FromArgsStep ==
    /\ argPc = "loop"
    /\ keyIdx < Len(Whitelist)
    /\ LET key == Whitelist[keyIdx + 1]
           nv == IF KeyInArgs(key, args) THEN DictSet(v, key, args[key]) ELSE v
       IN /\ v' = nv
          /\ raw' = [raw EXCEPT !.dock = nv]
    /\ keyIdx' = keyIdx + 1
    /\ UNCHANGED <<args, ctorArg, argPc>>
    /\ UNCHANGED notArg

\* return cls(**raw)
FromArgsConstruct ==
    /\ argPc = "loop"
    /\ keyIdx = Len(Whitelist)
    /\ ctorArg' = raw
    /\ argPc' = "constructed"
    /\ UNCHANGED <<args, v, raw, keyIdx>>
    /\ UNCHANGED notArg

\* ------------------------------------------------------ path validators

\* components of an argument path
MaxParts == 2
\* validator calls in one run
MaxPathCalls == 2

Names == {"a", "b"}
Root == << >>

\* a pathlib.Path: absolute or relative, its components in order
MkPath(isAbs, parts) == [abs |-> isAbs, parts |-> parts]

PathInputs ==
    {MkPath(b, q) : b \in BOOLEAN, q \in SeqsUpTo(Names \cup {".."}, MaxParts)}

\* file systems at the start: each top-level name absent, a file or a
\* directory
InitTrees ==
    {[d |-> {Root} \cup {<<n>> : n \in D}, r |-> {<<n>> : n \in R}] :
        D \in SUBSET Names, R \in SUBSET Names}

Parent(parts) == SubSeq(parts, 1, Len(parts) - 1)

Prefixes(parts) == {SubSeq(parts, 1, k) : k \in 0..Len(parts)}

RECURSIVE Normalize(_, _)
\* the walk of os.path.realpath without symbolic links: ".." drops the last
\* component, and stays at the root
Normalize(acc, parts) ==
    IF parts = << >> THEN acc
    ELSE LET h == Head(parts)
             next == IF h = ".."
                     THEN (IF acc = << >> THEN acc ELSE Parent(acc))
                     ELSE Append(acc, h)
         IN Normalize(next, Tail(parts))

\* value.resolve()
Resolve(c, value) ==
    MkPath(TRUE, Normalize(IF value.abs THEN Root ELSE c, value.parts))

\* p.absolute()
Absolute(c, p) == IF p.abs THEN p ELSE MkPath(TRUE, c \o p.parts)

\* os.mkdir(p): the error, or "ok" and the directories after it
OsMkdir(ds, rs, p) ==
    LET bad == {q \in Prefixes(p) : q # p /\ q \notin ds}
        firstBad == CHOOSE q \in bad : \A o \in bad : Len(q) <= Len(o)
    IN IF p \in ds \cup rs THEN [err |-> "FileExistsError", dirs |-> ds]
       ELSE IF bad = {} THEN [err |-> "ok", dirs |-> ds \cup {p}]
       ELSE IF firstBad \in rs THEN [err |-> "NotADirectoryError", dirs |-> ds]
       ELSE [err |-> "FileNotFoundError", dirs |-> ds]

RECURSIVE PathMkdir(_, _, _, _, _)
\* pathlib.Path.mkdir(parents, exist_ok)
PathMkdir(ds, rs, p, parents, exist_ok) ==
    LET first == OsMkdir(ds, rs, p)
    IN IF first.err = "ok" THEN first
       ELSE IF first.err = "FileNotFoundError"
       THEN IF ~parents \/ p = Root THEN first
            ELSE LET up == PathMkdir(ds, rs, Parent(p), TRUE, TRUE)
                 IN IF up.err # "ok" THEN up
                    ELSE PathMkdir(up.dirs, rs, p, FALSE, exist_ok)
       ELSE IF ~exist_ok \/ p \notin ds THEN first
       ELSE [err |-> "ok", dirs |-> ds]

\* a slip of the call: an existing directory is accepted
MkdirExistOkTrue == TRUE

\* the exist_ok argument of p.mkdir(exist_ok=False, parents=True)
MkdirExistOk == FALSE

NoPath == MkPath(FALSE, << >>)
NoResult == [kind |-> "none", path |-> NoPath, dirs |-> {Root}]

\* _resolve_mkdir(value): what it returns or raises, and the directories
\* after it
ResolveMkdir(ds, rs, c, value) ==
    LET p == Resolve(c, value)
        made == PathMkdir(ds, rs, p.parts, TRUE, MkdirExistOk)
    IN IF made.err = "ok"
       THEN [kind |-> "ok", path |-> Absolute(c, p), dirs |-> made.dirs]
       ELSE [kind |-> made.err, path |-> NoPath, dirs |-> made.dirs]

\* _resolve_path_exists(value) for a value that is not None
ResolvePathExists(ds, rs, c, value) ==
    LET p == Resolve(c, value)
    IN IF p.parts \notin ds \cup rs
       THEN [kind |-> "FileNotFoundError", path |-> NoPath, dirs |-> ds]
       ELSE [kind |-> "ok", path |-> p, dirs |-> ds]

FsInit ==
    /\ \E t \in InitTrees :
          /\ t.d \cap t.r = {}
          /\ dirs = t.d
          /\ regs = t.r
    /\ cwd \in dirs

FsIdle ==
    /\ dirs = {Root}
    /\ regs = {}
    /\ cwd = Root

PathIdle ==
    /\ pathOp = "none"
    /\ pathArg = NoPath
    /\ pathRes = NoResult
    /\ dirsBefore = {Root}
    /\ pathCalls = 0
    /\ prevMade = 0

\* the host calls _resolve_mkdir(value)
ResolveMkdirCall ==
    /\ pathCalls < MaxPathCalls
    /\ \E value \in PathInputs :
          LET res == ResolveMkdir(dirs, regs, cwd, value)
          IN /\ pathArg' = value
             /\ pathRes' = res
             /\ dirs' = res.dirs
             /\ prevMade' = IF /\ pathOp = "_resolve_mkdir"
                               /\ pathArg = value
                               /\ pathRes.kind = "ok"
                            THEN Cardinality(dirs \ dirsBefore)
                            ELSE 0
    /\ pathOp' = "_resolve_mkdir"
    /\ dirsBefore' = dirs
    /\ pathCalls' = pathCalls + 1
    /\ UNCHANGED <<regs, cwd>>
    /\ UNCHANGED notPath

\* the host calls _resolve_path_exists(value); None passes through as None
ResolvePathExistsCall ==
    /\ pathCalls < MaxPathCalls
    /\ \/ \E value \in PathInputs :
             /\ pathArg' = value
             /\ pathRes' = ResolvePathExists(dirs, regs, cwd, value)
       \/ /\ pathArg' = NoPath
          /\ pathRes' = [kind |-> "None", path |-> NoPath, dirs |-> dirs]
    /\ pathOp' = "_resolve_path_exists"
    /\ dirsBefore' = dirs
    /\ pathCalls' = pathCalls + 1
    /\ prevMade' = 0
    /\ UNCHANGED <<dirs, regs, cwd>>
    /\ UNCHANGED notPath

\* ------------------------------------------- the configuration mixin

\* Python values held by a configuration: str, int, None, pathlib.Path
PyStr(chars) == [t |-> "str", s |-> chars, n |-> 0, p |-> NoPath]
PyInt(k) == [t |-> "int", s |-> << >>, n |-> k, p |-> NoPath]
PyNone == [t |-> "None", s |-> << >>, n |-> 0, p |-> NoPath]
PyPath(q) == [t |-> "path", s |-> << >>, n |-> 0, p |-> q]

RECURSIVE JoinParts(_)
\* "/".join(parts), a string as its tokens
JoinParts(parts) ==
    IF parts = << >> THEN << >>
    ELSE IF Len(parts) = 1 THEN parts
    ELSE <<Head(parts), "/">> \o JoinParts(Tail(parts))

\* str(path)
PathStr(q) ==
    IF q.abs THEN <<"/">> \o JoinParts(q.parts)
    ELSE IF q.parts = << >> THEN <<".">>
    ELSE JoinParts(q.parts)

IsName(c) == c \notin {"/", "."}

\* Path(string)
ParsePath(chars) ==
    MkPath(chars # << >> /\ Head(chars) = "/", SelectSeq(chars, IsName))

\* the configuration classes built on BaseModel: one with plain fields, one
\* with a field under path_validator, one with a field under mkdir_validator
ConfigClasses == {"Plain", "WithInput", "WithOutput"}

FieldsOf(cls) ==
    CASE cls = "Plain" -> {"name", "top_n"}
      [] cls = "WithInput" -> {"name", "receptor_pdb"}
      [] cls = "WithOutput" -> {"name", "output_dir"}

Foo == <<"f", "o", "o">>

\* the records a configuration is first built from
RawInputs(cls) ==
    LET paths == {PyStr(PathStr(q)) : q \in PathInputs}
    IN CASE cls = "Plain" ->
              {[f \in FieldsOf(cls) |-> IF f = "name" THEN PyStr(Foo) ELSE PyInt(k)] :
                  k \in {1, 5}}
         [] cls = "WithInput" ->
              {[f \in FieldsOf(cls) |-> IF f = "name" THEN PyStr(Foo) ELSE x] :
                  x \in paths \cup {PyNone}}
         [] cls = "WithOutput" ->
              {[f \in FieldsOf(cls) |-> IF f = "name" THEN PyStr(Foo) ELSE x] :
                  x \in paths}

\* a Path-typed field takes a str or a Path
AsPath(val) == IF val.t = "path" THEN val.p ELSE ParsePath(val.s)

\* cls(**data): every field is validated; path_validator runs
\* _resolve_path_exists on its field, mkdir_validator runs _resolve_mkdir.
\* Gives the error or "ok", the object's fields, and the directories after
Construct(cls, data, ds, rs, c) ==
    IF DOMAIN data # FieldsOf(cls)
    THEN [err |-> "ValidationError", obj |-> data, dirs |-> ds]
    ELSE CASE cls = "Plain" -> [err |-> "ok", obj |-> data, dirs |-> ds]
           [] cls = "WithInput" ->
                IF data["receptor_pdb"].t = "None"
                THEN [err |-> "ok", obj |-> data, dirs |-> ds]
                ELSE LET res == ResolvePathExists(ds, rs, c,
                                    AsPath(data["receptor_pdb"]))
                     IN [err |-> res.kind,
                         obj |-> [data EXCEPT !["receptor_pdb"] = PyPath(res.path)],
                         dirs |-> ds]
           [] cls = "WithOutput" ->
                LET res == ResolveMkdir(ds, rs, c, AsPath(data["output_dir"]))
                IN [err |-> res.kind,
                    obj |-> [data EXCEPT !["output_dir"] = PyPath(res.path)],
                    dirs |-> res.dirs]

\* documents on disk: a mapping of field names to scalars
DocStr(chars) == [t |-> "string", s |-> chars, n |-> 0]
DocInt(k) == [t |-> "number", s |-> << >>, n |-> k]
DocNull == [t |-> "null", s |-> << >>, n |-> 0]

NoFile == [state |-> "absent", doc |-> EmptyDict]

\* json.dump(self.dict(), fp, indent=2) into a file opened for writing:
\* self.dict() keeps Path objects, which json cannot serialize; the file is
\* then left holding the text written before the error
WriteJsonFile(obj) ==
    IF \E f \in DOMAIN obj : obj[f].t = "path"
    THEN [err |-> "TypeError", file |-> [state |-> "truncated", doc |-> EmptyDict]]
    ELSE [err |-> "ok",
          file |-> [state |-> "written",
                    doc |-> [f \in DOMAIN obj |->
                               CASE obj[f].t = "str" -> DocStr(obj[f].s)
                                 [] obj[f].t = "int" -> DocInt(obj[f].n)
                                 [] OTHER -> DocNull]]]

\* yaml.dump(json.loads(self.json()), fp, indent=4, sort_keys=False):
\* self.json() writes a Path as str(path)
WriteYamlFile(obj) ==
    [err |-> "ok",
     file |-> [state |-> "written",
               doc |-> [f \in DOMAIN obj |->
                          CASE obj[f].t = "str" -> DocStr(obj[f].s)
                            [] obj[f].t = "int" -> DocInt(obj[f].n)
                            [] obj[f].t = "path" -> DocStr(PathStr(obj[f].p))
                            [] OTHER -> DocNull]]]

\* json.load(fp) / yaml.safe_load(fp) of a written document
LoadDoc(doc) ==
    [f \in DOMAIN doc |->
        CASE doc[f].t = "string" -> PyStr(doc[f].s)
          [] doc[f].t = "number" -> PyInt(doc[f].n)
          [] OTHER -> PyNone]

NoObject == [cls |-> "none", fields |-> EmptyDict]
NoLoad == [state |-> "none", obj |-> NoObject]

CfgIdle ==
    /\ cfgX = NoObject
    /\ cfgPc = "idle"
    /\ jsonFile = NoFile
    /\ yamlFile = NoFile
    /\ wjRes = "none"
    /\ wyRes = "none"
    /\ loadJson = NoLoad
    /\ loadYaml = NoLoad

CfgInit ==
    /\ cfgX = NoObject
    /\ cfgPc = "new"
    /\ jsonFile = NoFile
    /\ yamlFile = NoFile
    /\ wjRes = "none"
    /\ wyRes = "none"
    /\ loadJson = NoLoad
    /\ loadYaml = NoLoad

\* x = cls(**raw)
CfgConstruct ==
    /\ cfgPc = "new"
    /\ \E cls \in ConfigClasses : \E data \in RawInputs(cls) :
          LET made == Construct(cls, data, dirs, regs, cwd)
          IN /\ dirs' = made.dirs
             /\ IF made.err = "ok"
                THEN cfgX' = [cls |-> cls, fields |-> made.obj] /\ cfgPc' = "built"
                ELSE cfgX' = NoObject /\ cfgPc' = "failed"
    /\ UNCHANGED <<regs, cwd, jsonFile, yamlFile, wjRes, wyRes, loadJson,
                   loadYaml>>
    /\ UNCHANGED notCfg

\* x.write_json(path)
CfgWriteJson ==
    /\ cfgPc = "built"
    /\ LET w == WriteJsonFile(cfgX.fields)
       IN wjRes' = w.err /\ jsonFile' = w.file
    /\ UNCHANGED <<fsVars, cfgX, cfgPc, yamlFile, wyRes, loadJson, loadYaml>>
    /\ UNCHANGED notCfg

\* x.write_yaml(path)
CfgWriteYaml ==
    /\ cfgPc = "built"
    /\ LET w == WriteYamlFile(cfgX.fields)
       IN wyRes' = w.err /\ yamlFile' = w.file
    /\ UNCHANGED <<fsVars, cfgX, cfgPc, jsonFile, wjRes, loadJson, loadYaml>>
    /\ UNCHANGED notCfg

\* what cls.from_json / cls.from_yaml make of a file: a parse error for a
\* file cut short, else cls(**data)
LoadFrom(file, cls, ds, rs, c) ==
    IF file.state = "truncated"
    THEN [state |-> "JSONDecodeError", obj |-> NoObject, dirs |-> ds]
    ELSE LET made == Construct(cls, LoadDoc(file.doc), ds, rs, c)
         IN [state |-> made.err,
             obj |-> IF made.err = "ok" THEN [cls |-> cls, fields |-> made.obj]
                     ELSE NoObject,
             dirs |-> made.dirs]

\* cls.from_json(path), of the file write_json wrote
CfgFromJson ==
    /\ cfgPc = "built"
    /\ jsonFile.state # "absent"
    /\ LET l == LoadFrom(jsonFile, cfgX.cls, dirs, regs, cwd)
       IN /\ loadJson' = [state |-> l.state, obj |-> l.obj]
          /\ dirs' = l.dirs
    /\ UNCHANGED <<regs, cwd, cfgX, cfgPc, jsonFile, yamlFile, wjRes, wyRes,
                   loadYaml>>
    /\ UNCHANGED notCfg

\* cls.from_yaml(path), of the file write_yaml wrote
CfgFromYaml ==
    /\ cfgPc = "built"
    /\ yamlFile.state # "absent"
    /\ LET l == LoadFrom(yamlFile, cfgX.cls, dirs, regs, cwd)
       IN /\ loadYaml' = [state |-> l.state, obj |-> l.obj]
          /\ dirs' = l.dirs
    /\ UNCHANGED <<regs, cwd, cfgX, cfgPc, jsonFile, yamlFile, wjRes, wyRes,
                   loadJson>>
    /\ UNCHANGED notCfg

\* ------------------------------------------------------ specifications

\* the host script calling run_and_save, sdf2pdb, validate_smiles and
\* cal_cnn_aff
Init == HostInit /\ SeqIdle /\ ArgIdle /\ FsIdle /\ PathIdle /\ CfgIdle

Next ==
    \/ CallRunAndSave \/ RunEcho \/ RunPopen \/ RunWait \/ RunFailPrint
    \/ RunExit \/ RunReturn
    \/ CallSdf2pdb \/ SdfRemove \/ SdfOpen \/ SdfPopen \/ SdfWait \/ SdfRead
    \/ SdfFailRcPrint \/ SdfSize \/ SdfFailEmptyPrint \/ SdfExit \/ SdfReturn
    \/ CallValidateSmiles \/ SmilesDisableLog \/ SmilesParse
    \/ SmilesEnableLog \/ SmilesReturn
    \/ CallCalCnnAff \/ CalRead
    \/ CallCombPdb \/ CombRemove \/ CombLoad \/ CombWrite
    \/ CallCleanPdb \/ CleanLoad \/ CleanWrite
    \/ ChildWriteOut \/ ChildWriteErr \/ ChildExit
    \/ HostFlush \/ HostTerminate

Spec == Init /\ [][Next]_vars

\* pdb2seq on every residue list within the bounds
InitSeq == HostIdle /\ SeqInit /\ ArgIdle /\ FsIdle /\ PathIdle /\ CfgIdle
NextSeq == Pdb2seqLoad \/ Pdb2seqStep \/ Pdb2seqReturn
SpecSeq == InitSeq /\ [][NextSeq]_vars

\* from_args on every argument bag
InitArgs == HostIdle /\ SeqIdle /\ ArgInit /\ FsIdle /\ PathIdle /\ CfgIdle
NextArgs == FromArgsStart \/ FromArgsStep \/ FromArgsConstruct
SpecArgs == InitArgs /\ [][NextArgs]_vars

\* the path validators called on a file system
InitPath == HostIdle /\ SeqIdle /\ ArgIdle /\ FsInit /\ PathIdle /\ CfgIdle
NextPath == ResolveMkdirCall \/ ResolvePathExistsCall
SpecPath == InitPath /\ [][NextPath]_vars

\* a configuration built, saved and loaded
InitConfig == HostIdle /\ SeqIdle /\ ArgIdle /\ FsInit /\ PathIdle /\ CfgInit
NextConfig ==
    CfgConstruct \/ CfgWriteJson \/ CfgWriteYaml \/ CfgFromJson \/ CfgFromYaml
SpecConfig == InitConfig /\ [][NextConfig]_vars

\* ------------------------------------------------- claims: the host process

RunnerOps == {"run_and_save", "cal_cnn_aff"}
BeforeWait == {"r_echo", "r_popen", "r_wait"}
FailureDiagnostics ==
    {"Failure running", "Failure rc", "Failure (output is empty)"}

\* C1: run_and_save returns its handle only when the child exited with code
\* 0, and then the host is not terminated; when the child exits with another
\* code the call never returns and the host ends with exit status 1.
RunAndSaveExitContract ==
    /\ pc = "r_return" =>
          child.st = "exited" /\ child.rc = 0 /\ exitCode = << >> /\ exc = "none"
    /\ (op = "run_and_save" /\ pc = "idle") =>
          /\ retval.kind = "process" /\ retval.returncode = 0
          /\ child.rc = 0 /\ exitCode = << >>
    /\ (op \in RunnerOps /\ pc \notin BeforeWait /\ child.rc # 0) =>
          /\ pc \in {"r_fail", "r_exit", "unwind", "terminated"}
          /\ retval.kind = "none"
          /\ pc = "terminated" => exitCode = <<1>>
    /\ (op = "run_and_save" /\ pc \notin BeforeWait /\ child.rc = 0) =>
          pc \in {"r_return", "idle"} /\ exitCode = << >>

\* the child was killed by a signal, the call did not return and the host
\* ended with status 1
RunAndSaveAborted ==
    /\ op = "run_and_save" /\ pc = "terminated" /\ child.rc = -9
    /\ exitCode = <<1>> /\ retval.kind = "none"

SdfBeforeCheck == {"s_remove", "s_open", "s_popen", "s_wait", "s_read"}

\* what the host has printed to sys.stdout, flushed or not
Printed == stdoutS \o stdoutBuf \o stdoutPend

\* C2: sdf2pdb returns the output path only if the converter exited with code
\* 0 and the output file is not empty; otherwise it prints a failure
\* diagnostic and terminates the host, and never returns the path of an
\* empty file.
Sdf2pdbContract ==
    /\ (op = "sdf2pdb" /\ pc \in {"s_return", "idle"}) =>
          /\ child.st = "exited" /\ child.rc = 0
          /\ files[pdbFile].exists /\ files[pdbFile].size > 0
          /\ exitCode = << >>
    /\ (op = "sdf2pdb" /\ pc = "idle") =>
          retval.kind = "path" /\ retval.path = pdbFile
    /\ (op = "sdf2pdb" /\ pc \notin SdfBeforeCheck /\ exc # "OSError"
        /\ (child.rc # 0 \/ files[pdbFile].size = 0)) =>
          /\ pc \in {"s_fail_rc", "s_size", "s_fail_empty", "s_exit", "unwind",
                     "terminated"}
          /\ retval.kind = "none"
          /\ pc \in {"s_exit", "unwind", "terminated"} =>
                \E i \in DOMAIN Printed :
                    Printed[i] \in FailureDiagnostics
          /\ pc = "terminated" =>
                /\ exitCode = <<1>>
                /\ \E i \in DOMAIN stdoutS : stdoutS[i] \in FailureDiagnostics

\* the converter exited 0 and left a zero-byte file; the host was
\* terminated, the diagnostic being the third text printed to its standard
\* output
Sdf2pdbEmptyAborted ==
    /\ op = "sdf2pdb" /\ pc = "terminated" /\ exc = "SystemExit"
    /\ child.rc = 0 /\ files[pdbFile].size = 0
    /\ retval.kind = "none"
    /\ exitCode = <<1>>
    /\ stdoutS = <<"host", "cmd", "Failure (output is empty)">>

\* C3: on every exit path of validate_smiles the rdApp.error log switch is
\* what it was before the call.
SmilesLogRestored ==
    (op = "validate_smiles" /\ pc \in {"v_return", "idle", "unwind"}) =>
        logEnabled = logPrior

\* C4: cal_cnn_aff's temporary directory is gone once the call's scope is
\* left, by return or by an exception.
TempDirRemovedOnExit ==
    (op = "cal_cnn_aff" /\ pc \in {"idle", "unwind"}) => ~tmpExists

\* C9: whenever a tool failure makes this module end the host (sys.exit), a
\* failure diagnostic is on the error stream before the host terminates.
FailureDiagnosticOnStderr ==
    (exc = "SystemExit" /\ pc \in {"unwind", "terminated"}) =>
        \E i \in DOMAIN stderrS : stderrS[i] \in FailureDiagnostics

\* C10: sdf2pdb never waits for the converter's exit while the converter is
\* blocked writing to a full stderr pipe.
NoPipeDeadlock ==
    ~(/\ pc = "s_wait"
      /\ child.st = "running"
      /\ child.outLeft = 0
      /\ child.errLeft > 0
      /\ pipe = PipeCap)

\* ------------------------------------------------------- claims: pdb2seq

\* C8: pdb2seq returns a string as long as the residue list whose i-th
\* character is the table's code of the i-th residue name, or "-" when the
\* name is not in the table; it does not fail on unknown names and leaves
\* the table as it was.
Pdb2seqMapsEveryResidue ==
    /\ three_to_one = ThreeToOne
    /\ seqPc \in {"start", "loop", "returned"}
    /\ seqPc = "returned" =>
          /\ Len(seq) = Len(resnames)
          /\ \A i \in 1..Len(resnames) :
                seq[i] = IF resnames[i] \in DOMAIN ThreeToOne
                         THEN ThreeToOne[resnames[i]] ELSE "-"

\* the residues ALA, GLY, XYZ gave "AG-"
Pdb2seqExample ==
    /\ seqPc = "returned"
    /\ resnames = <<"ALA", "GLY", "XYZ">>
    /\ seq = <<"A", "G", "-">>

\* ----------------------------------------------------- claims: from_args

WhitelistSet == {Whitelist[i] : i \in DOMAIN Whitelist}

\* C7: the record from_args passes to the constructor has the single key
\* dock, whose entries are exactly the whitelisted names present in the
\* argument bag, each with the bag's value.
FromArgsCopiesPresentWhitelisted ==
    argPc = "constructed" =>
        /\ DOMAIN ctorArg = {"dock"}
        /\ DOMAIN ctorArg.dock = WhitelistSet \cap DOMAIN args
        /\ \A k \in DOMAIN ctorArg.dock : ctorArg.dock[k] = args[k]

\* a bag with name, a None-valued top_n and a foreign name; output_dir absent
FromArgsExample ==
    /\ argPc = "constructed"
    /\ DOMAIN args = {"name", "top_n", "debug"}
    /\ args["name"] = "foo" /\ args["top_n"] = "None"
    /\ DOMAIN ctorArg.dock = {"name", "top_n"}

\* ----------------------------------------------- claims: path validators

\* the canonical path the last validator call was about
PathTarget == Normalize(IF pathArg.abs THEN Root ELSE cwd, pathArg.parts)

\* C6: _resolve_mkdir fails on a path that exists as a directory and leaves
\* the file system as it was; on a path that does not exist (its parents
\* directories or missing) it creates the directory and every missing parent
\* and returns the canonical absolute path; called twice on the same path it
\* succeeds, then fails.
ResolveMkdirContract ==
    pathOp = "_resolve_mkdir" =>
        /\ PathTarget \in dirsBefore =>
              pathRes.kind = "FileExistsError" /\ dirs = dirsBefore
        /\ (PathTarget \notin dirsBefore /\ Prefixes(PathTarget) \cap regs = {}) =>
              /\ pathRes.kind = "ok"
              /\ dirs = dirsBefore \cup Prefixes(PathTarget)
              /\ pathRes.path.abs
              /\ pathRes.path.parts = PathTarget
              /\ \A i \in DOMAIN pathRes.path.parts :
                    pathRes.path.parts[i] \in Names
              /\ (\A i \in DOMAIN pathArg.parts : pathArg.parts[i] \in Names) =>
                    pathRes.path.parts =
                        (IF pathArg.abs THEN Root ELSE cwd) \o pathArg.parts
        /\ pathRes.kind # "ok" => dirs = dirsBefore
        /\ prevMade > 0 => pathRes.kind = "FileExistsError"

\* the second of two calls on one nested path: the first created the
\* directory and its missing parent, the second failed
ResolveMkdirTwice ==
    /\ pathOp = "_resolve_mkdir"
    /\ prevMade >= 2
    /\ pathRes.kind = "FileExistsError"
    /\ dirs = dirsBefore

\* ------------------------------------------- claims: configuration mixin

\* C5: for every configuration object x, write_json then from_json, and
\* write_yaml then from_yaml, succeed and give a value equal to x.
ConfigRoundTripLossless ==
    /\ wjRes \in {"none", "ok"}
    /\ wyRes \in {"none", "ok"}
    /\ loadJson.state # "none" => loadJson.state = "ok" /\ loadJson.obj = cfgX
    /\ loadYaml.state # "none" => loadYaml.state = "ok" /\ loadYaml.obj = cfgX

====
